---------------------------- MODULE Spec2Model ----------------------------
(***************************************************************************)
(* A model of codetrawl (src/codetrawl.py): the Fetcher _get, the two      *)
(* search generators search_github and search_searchcode, and the consumer *)
(* dump_all_matches that downloads every match and writes one record per   *)
(* match.                                                                  *)
(*                                                                         *)
(* The backend is the environment: every page, payload and HTTP outcome is *)
(* drawn from a small set of shapes.  A generator runs from one resumption *)
(* to its next yield, return or raise; the consumer's loop body runs       *)
(* between two resumptions.                                                *)
(***************************************************************************)
EXTENDS Integers, Sequences, FiniteSets, TLC

\* ------------------------------------------------------------ bounds
\* Page fetches of one scan the model follows.
MaxFetches == 4
\* Matches of one scan the model follows.
MaxYielded == 3
\* Distinct files the adversarial backend knows.
MaxUrls == 2
\* Retriable failures of one _get call the model follows.
MaxBackoffs == 6
\* Largest result set of the stable backend.
MaxN == 25
\* Largest result set of the reordering backend.
MaxShuffled == 11

\* ------------------------------------------------- program constants
\* "total_pages = count // 10"
PageSize == 10
\* "if count > 1000"
ResultCeiling == 1000
\* "if server_side_timeouts >= 3"
TimeoutLimit == 3
\* "per_page": 100
PerPage == 100

VARIABLES
    service,                \* dump_all_matches' service argument
    hits,                   \* search_github: raw_urls yielded so far
    page,                   \* the generator's page cursor
    server_side_timeouts,   \* search_github: consecutive incomplete pages
    todo,                   \* links / results of the current page not yet looked at
    gen,                    \* "fetch" | "links" | "returned" | "raised"
    error,                  \* the exception that ended the run ("" while none)
    match,                  \* <<m>>: the match yielded and not yet consumed
    r,                      \* dump_all_matches: <<response>>, <<>> while unbound
    out,                    \* out_file: the records written, in order
    run,                    \* "running" | "exited" | "aborted"
    yielded,                \* history: every match yielded, in order
    fetches,                \* history: number of page fetches issued
    recent,                 \* history: incomplete flag of the last 3 page fetches
    oks,                    \* history: whether each content fetch succeeded
    last,                   \* history: <<what the page fetched last carried>>
    N,                      \* the true total of a consistent backend (0: none)
    pause, backoffs,        \* _get's locals
    getst,                  \* _get: "idle" | "loop" | "returned" | "raised"
    sleeps,                 \* history: the pauses slept, in order
    attempts                \* history: the outcome of every request of the call

scanvars == <<service, hits, page, server_side_timeouts, todo, gen,
              error, match, r, out, run, yielded, fetches, recent, oks, last, N>>
getvars == <<pause, backoffs, getst, sleeps, attempts>>
vars == <<scanvars, getvars>>

\* ------------------------------------------------------------ helpers
RECURSIVE Pow2(_)
Pow2(n) == IF n = 0 THEN 1 ELSE 2 * Pow2(n - 1)

Range(s) == {s[i] : i \in 1..Len(s)}

NoDup(s) == \A i, j \in 1..Len(s) : i # j => s[i] # s[j]

\* The last n elements of s.
LastN(s, n) == IF Len(s) <= n THEN s ELSE SubSeq(s, Len(s) - n + 1, Len(s))

\* ------------------------------------------------------------ _get
\* What one session.get can produce: no response at all (a
\* requests.exceptions.ConnectionError), or a response with a status code.
Statuses == {200, 404, 429, 500}
Outcomes == {[conn |-> TRUE, status |-> 0]}
            \cup {[conn |-> FALSE, status |-> s] : s \in Statuses}

\* An except clause that also takes a server error for a throttling.
RetriableServerError(o) == o.conn \/ o.status = 429 \/ o.status = 500

\* "except (requests.exceptions.ConnectionError, Error429)"
Retriable(o) == o.conn \/ o.status = 429

\* response.raise_for_status(): a 4xx or 5xx status raises HTTPError.
RaisesForStatus(o) == ~o.conn /\ o.status >= 400 /\ o.status < 600

\* A backoff that grows by one time unit instead of doubling.
NextPauseLinear(p) == p + 1

\* "pause *= 2"
NextPause(p) == p * 2

\* The state after "pause = 1; backoffs = 0".
GetInit ==
    /\ pause = 1
    /\ backoffs = 0
    /\ getst = "loop"
    /\ sleeps = <<>>
    /\ attempts = <<>>

\* One pass of "while True" that ends in the except clause: sleep, count,
\* double, continue.
GetBackoff ==
    /\ getst = "loop"
    /\ backoffs < MaxBackoffs
    /\ \E o \in Outcomes :
        /\ Retriable(o)
        /\ attempts' = Append(attempts, o)
    /\ sleeps' = Append(sleeps, pause)
    /\ backoffs' = backoffs + 1
    /\ pause' = NextPause(pause)
    /\ UNCHANGED <<getst, scanvars>>

\* A pass whose response is not retriable and whose status is an error:
\* raise_for_status raises, the call ends.
GetRaise ==
    /\ getst = "loop"
    /\ \E o \in Outcomes :
        /\ ~Retriable(o)
        /\ RaisesForStatus(o)
        /\ attempts' = Append(attempts, o)
    /\ getst' = "raised"
    /\ UNCHANGED <<pause, backoffs, sleeps, scanvars>>

\* A pass whose response is returned.
GetReturn ==
    /\ getst = "loop"
    /\ \E o \in Outcomes :
        /\ ~Retriable(o)
        /\ ~RaisesForStatus(o)
        /\ attempts' = Append(attempts, o)
    /\ getst' = "returned"
    /\ UNCHANGED <<pause, backoffs, sleeps, scanvars>>

\* ------------------------------------------------- search_github: pages
\* A link of a result list: to a file view ("<repo>/blob/<sha>/<path>",
\* blob = TRUE), possibly with a line fragment, or to anything else.  The
\* adversarial backend knows MaxUrls files, a link to a line of the first
\* one, and one link that is no file view.
Link(p, f, b) == [repo |-> "repo", path |-> p, frag |-> f, blob |-> b]
Links == {Link(p, FALSE, TRUE) : p \in 1..MaxUrls}
         \cup {Link(1, TRUE, TRUE), Link(0, FALSE, FALSE)}

\* url.split("#")[0]
StripFragment(l) == [l EXCEPT !.frag = FALSE]

\* result_url_re.match(url)
IsResultUrl(l) == l.blob

\* url.replace("/blob/", "/raw/")
RawUrl(l) == [raw |-> l.path, of |-> l.repo]

\* The dict search_github yields for a link.
GithubMatch(l) ==
    [repo |-> <<"github:", l.repo>>, path |-> l.path,
     raw_url |-> RawUrl(StripFragment(l))]

\* The counts a heading of the adversarial backend may show.
Totals == {0, MaxUrls, PageSize + 1, ResultCeiling, ResultCeiling + 1}

\* An h3 of a page: whether it holds the potential-timeouts help link,
\* whether its text reads "Showing N available code", the counts of the
\* "found N code results" matches in its text, and whether its text holds
\* the "We couldn't find any code matching" phrase.  The help link comes
\* with the "Showing N available code" text; that text may come without the
\* link.
H3(l, p, c, n) == [link |-> l, partial |-> p, counts |-> c, none |-> n]
CountTexts == {<<>>} \cup {<<c>> : c \in Totals}
H3s == {H3(FALSE, p, c, n) : p \in BOOLEAN, c \in CountTexts, n \in BOOLEAN}
       \cup {H3(TRUE, TRUE, c, n) : c \in CountTexts, n \in BOOLEAN}

\* A page: its h3 elements in document order, the number of elements
\* "#code_search_results > .code-list" selects, and the links of the result
\* list.
Page(h, d, l) == [h3s |-> h, lists |-> d, links |-> l]

\* The heading part of every page the adversarial backend may serve: no,
\* one or two h3 elements.
Headings == {<<>>} \cup {<<a>> : a \in H3s} \cup {<<a, b>> : a, b \in H3s}

\* The result lists of the adversarial backend: no, one or two links.
LinkLists == {<<>>} \cup {<<a>> : a \in Links}
             \cup {<<a, b>> : a, b \in Links}

\* _github_search_timed_out(tree): "True", "None" (falls off the end) or
\* "AssertionError".
RECURSIVE github_search_timed_out(_)
github_search_timed_out(h3s) ==
    IF h3s = <<>> THEN "None"
    ELSE IF Head(h3s).link THEN "True"
    ELSE IF Head(h3s).partial THEN "AssertionError"
    ELSE github_search_timed_out(Tail(h3s))

\* "total_pages = count // 10; if count % 10: total_pages += 1"
TotalPages(c) == (c \div PageSize) + (IF c % PageSize # 0 THEN 1 ELSE 0)

\* "if page == total_pages: page = 1 else: page += 1"
AdvancePage(pg, c) == IF pg = TotalPages(c) THEN 1 ELSE pg + 1

\* A completion test that wants more hits than the count.
FinishedStrict(c, nhits) == c < nhits

\* A completion test that is satisfied one hit early.
FinishedEarly(c, nhits) == c <= nhits + 1

\* "if count <= len(hits): return"
Finished(c, nhits) == c <= nhits

\* A ceiling that rejects the ceiling itself.
TooManyHitsInclusive(c) == c >= ResultCeiling

\* "if count > 1000: raise"
TooManyHits(c) == c > ResultCeiling

\* The inner loop "for match in github_count_re.finditer(text)" over the
\* counts of one h3.  st = [page, found_count, count, status]; status is
\* "go" while the loop runs on, "return" or the exception raised.
RECURSIVE ScanCounts(_, _, _)
ScanCounts(counts, st, nhits) ==
    IF counts = <<>> THEN st
    ELSE LET c == Head(counts)
             fc == st.found_count + 1
         IN  IF TooManyHits(c)
             THEN [st EXCEPT !.found_count = fc, !.count = c,
                             !.status = "TooManyHits"]
             ELSE IF Finished(c, nhits)
             THEN [st EXCEPT !.found_count = fc, !.count = c,
                             !.status = "return"]
             ELSE ScanCounts(Tail(counts),
                             [st EXCEPT !.found_count = fc, !.count = c,
                                        !.page = AdvancePage(st.page, c)],
                             nhits)

\* A heading scan that never looks for the no-results phrase.
RECURSIVE ScanH3sNoPhrase(_, _, _)
ScanH3sNoPhrase(h3s, st, nhits) ==
    IF h3s = <<>> THEN st
    ELSE LET s1 == ScanCounts(Head(h3s).counts, st, nhits)
         IN  IF s1.status # "go" THEN s1
             ELSE ScanH3sNoPhrase(Tail(h3s), s1, nhits)

\* The outer loop "for h3 in tree.cssselect('h3')": the counts of the h3,
\* then the no-results phrase with its "assert page == 1".
RECURSIVE ScanH3s(_, _, _)
ScanH3s(h3s, st, nhits) ==
    IF h3s = <<>> THEN st
    ELSE LET s1 == ScanCounts(Head(h3s).counts, st, nhits)
         IN  IF s1.status # "go" THEN s1
             ELSE IF Head(h3s).none
             THEN [s1 EXCEPT !.status = IF s1.page = 1 THEN "return"
                                        ELSE "AssertionError"]
             ELSE ScanH3s(Tail(h3s), s1, nhits)

\* "if found_count != 1: raise RuntimeError('scraper broken ...')"
ScraperBroken(fc) == fc # 1

\* Everything between the timed-out test and the result list: the outcome
\* of the heading scan, then the found_count test, then the unpacking
\* "(results_div,) = ..." that raises ValueError unless one element matched.
ParseCount(pg, cursor, nhits) ==
    LET s == ScanH3s(pg.h3s,
                     [page |-> cursor, found_count |-> 0,
                      count |-> -1, status |-> "go"],
                     nhits)
    IN  IF s.status # "go" THEN s
        ELSE IF ScraperBroken(s.found_count)
        THEN [s EXCEPT !.status = "ScraperBroken"]
        ELSE IF pg.lists # 1 THEN [s EXCEPT !.status = "ValueError"]
        ELSE s

\* ------------------------------------------------ search_github: steps
\* A membership test that takes every link for a new one.
NotSeenAlways(raw, seen) == TRUE

\* "if raw_url not in hits"
NotSeen(raw, seen) == raw \notin seen

\* A counter that a page without the flag leaves as it is.
ResetTimeoutsKeep(n) == n

\* "server_side_timeouts = 0" on a page that did not time out.
ResetTimeouts(n) == 0

\* A retry that moves on to the next page.
RetryPageAdvance(p) == p + 1

\* "continue" on a page that timed out: the cursor is where it was.
RetryPage(p) == p

\* The generator ends: a return ends the consumer's for loop, an exception
\* propagates through it.
Ends(status) ==
    /\ gen' = IF status = "return" THEN "returned" ELSE "raised"
    /\ error' = IF status = "return" THEN "" ELSE status
    /\ run' = IF status = "return" THEN "exited" ELSE "aborted"

\* A generator that runs ahead of its consumer.
MayFetchAhead(svc) ==
    /\ service = svc
    /\ run = "running"
    /\ gen = "fetch"
    /\ (N > 0 \/ fetches < MaxFetches)

\* The generator may fetch: it holds the control, and the model still
\* follows the scan.
MayFetch(svc) ==
    /\ service = svc
    /\ run = "running"
    /\ gen = "fetch"
    /\ match = <<>>
    /\ (N > 0 \/ fetches < MaxFetches)

\* The page fetches issued.  Against a consistent backend, whose scan may
\* rescan for ever, they are counted up to two more than a full pass.
CountFetch(n) == IF N > 0 /\ n >= (N + PageSize - 1) \div PageSize + 2
                 THEN n ELSE n + 1

\* The matches the model follows: MaxYielded against a backend that may
\* answer anything, the whole result set (and one more) against a
\* consistent one.
YieldBound == IF N > 0 THEN N + 1 ELSE MaxYielded

\* The page cursor a page was requested with and the signals the page
\* carried: the outcome of the timed-out test, and whether some h3 holds
\* the no-results phrase.
Carried(pg, cursor) ==
    [p |-> cursor, timed_out |-> github_search_timed_out(pg.h3s),
     none |-> \E i \in 1..Len(pg.h3s) : pg.h3s[i].none]

\* The counts of all "found N code results" matches of a page, in
\* document order.
RECURSIVE AllCounts(_)
AllCounts(h3s) ==
    IF h3s = <<>> THEN <<>> ELSE Head(h3s).counts \o AllCounts(Tail(h3s))

\* The signals the heading scan of a page meets, in the order it meets
\* them: the counts of each h3, then -1 if the h3 holds the no-results
\* phrase.
RECURSIVE Signals(_)
Signals(h3s) ==
    IF h3s = <<>> THEN <<>>
    ELSE Head(h3s).counts \o (IF Head(h3s).none THEN <<-1>> ELSE <<>>)
         \o Signals(Tail(h3s))

\* What a page carried, with the count markers and the signals its heading
\* scan can meet: all of the page, or none when the page is taken for
\* incomplete and its headings are never scanned.
Parsed(pg, cursor) ==
    LET t == github_search_timed_out(pg.h3s)
    IN  [p |-> cursor, timed_out |-> t,
         none |-> \E i \in 1..Len(pg.h3s) : pg.h3s[i].none,
         counts |-> IF t = "True" THEN <<>> ELSE AllCounts(pg.h3s),
         signals |-> IF t = "True" THEN <<>> ELSE Signals(pg.h3s)]

\* One pass of search_github's "while True" on the page pg that _get
\* returned, up to the result list; summary is what the history keeps of
\* the page.
GithubPageAs(pg, summary) ==
    LET t == github_search_timed_out(pg.h3s)
        s == ParseCount(pg, page, Cardinality(hits))
    IN  /\ fetches' = CountFetch(fetches)
        /\ recent' = LastN(Append(recent, t = "True"), TimeoutLimit)
        /\ last' = <<summary>>
        /\ IF t = "AssertionError"
           THEN /\ Ends("AssertionError")
                /\ UNCHANGED <<server_side_timeouts, page, todo>>
           ELSE IF t = "True"
           THEN /\ server_side_timeouts' = server_side_timeouts + 1
                /\ IF server_side_timeouts' >= TimeoutLimit
                   THEN Ends("TooUnstable")
                   ELSE UNCHANGED <<gen, error, run>>
                /\ page' = RetryPage(page)
                /\ UNCHANGED todo
           ELSE /\ server_side_timeouts' = ResetTimeouts(server_side_timeouts)
                /\ page' = s.page
                /\ IF s.status # "go"
                   THEN Ends(s.status) /\ UNCHANGED todo
                   ELSE /\ todo' = pg.links
                        /\ gen' = IF pg.links = <<>> THEN "fetch" ELSE "links"
                        /\ UNCHANGED <<error, run>>
        /\ UNCHANGED <<service, hits, match, r, out, yielded, oks, N, getvars>>

GithubPage(pg) == GithubPageAs(pg, Carried(pg, page))

\* The same pass, the history keeping the page's count markers too.
ParsePage(pg) == GithubPageAs(pg, Parsed(pg, page))

\* A page fetch against a backend that may answer anything.  The result
\* list matters only on a page whose headings let the scan reach it.
GithubFetch ==
    /\ MayFetch("github")
    /\ \E h \in Headings :
          IF github_search_timed_out(h) = "None"
             /\ ParseCount(Page(h, 1, <<>>), page,
                           Cardinality(hits)).status = "go"
          THEN \E d \in 0..2, l \in LinkLists :
                  (d = 1 \/ l = <<>>) /\ GithubPage(Page(h, d, l))
          ELSE GithubPage(Page(h, 1, <<>>))

\* The same fetch, the history keeping the page's count markers.
ParseFetch ==
    /\ MayFetch("github")
    /\ \E h \in Headings :
          IF github_search_timed_out(h) = "None"
             /\ ParseCount(Page(h, 1, <<>>), page,
                           Cardinality(hits)).status = "go"
          THEN \E d \in 0..2, l \in LinkLists :
                  (d = 1 \/ l = <<>>) /\ ParsePage(Page(h, d, l))
          ELSE ParsePage(Page(h, 1, <<>>))

\* A page fetch on which _get raises HTTPError: it propagates out of the
\* generator.
GithubFetchError ==
    /\ MayFetch("github")
    /\ fetches' = CountFetch(fetches)
    /\ Ends("HTTPError")
    /\ UNCHANGED <<service, hits, page, server_side_timeouts, todo,
                   match, r, out, yielded, recent, oks, last, N, getvars>>

\* One pass of "for url in _link_targets(results_div)": the next link is
\* yielded as a match, or passed over.
GithubLink ==
    /\ service = "github"
    /\ run = "running"
    /\ gen = "links"
    /\ match = <<>>
    /\ LET url == StripFragment(Head(todo))
           raw_url == RawUrl(url)
       IN  IF IsResultUrl(url) /\ NotSeen(raw_url, hits)
           THEN /\ Len(yielded) < YieldBound
                /\ hits' = hits \cup {raw_url}
                /\ match' = <<GithubMatch(url)>>
                /\ yielded' = Append(yielded, GithubMatch(url))
           ELSE UNCHANGED <<hits, match, yielded>>
    /\ todo' = Tail(todo)
    /\ gen' = IF todo' = <<>> THEN "fetch" ELSE "links"
    /\ UNCHANGED <<service, page, server_side_timeouts, error, r, out,
                   run, fetches, recent, oks, last, N, getvars>>

\* ------------------------------------------------------ search_searchcode
\* A result of a payload: {repo, location, filename, url}.
Result(i) == [repo |-> "sc", location |-> "loc", filename |-> i,
              url |-> [view |-> i]]
Results == {Result(i) : i \in 1..MaxUrls}

\* The dict search_searchcode yields for a result:
\* path = location + "/" + filename, raw_url = url with /view/ as /raw/.
ScMatch(res) ==
    [repo |-> res.repo, path |-> <<res.location, "/", res.filename>>,
     raw_url |-> [raw |-> res.url.view, of |-> "sc"]]

\* The payloads the backend may answer a request for page p with: the page
\* echoed or another one, and no, one or two results.
ResultLists == {<<>>} \cup {<<a>> : a \in Results}
               \cup {<<a, b>> : a, b \in Results}
Payloads(p) == [page : {p, p + 1}, results : ResultLists]

\* An echo test that is made only on a page with results.
RanOffEndNonEmpty(payload, p) == payload.page # p /\ payload.results # <<>>

\* "if payload['page'] != page: raise RuntimeError('Too many results')"
RanOffEnd(payload, p) == payload.page # p

\* A cursor that stays on the page it is on.
NextPageStay(p) == p

\* "page += 1"
NextPage(p) == p + 1

\* One pass of search_searchcode's "while True" on the payload that was
\* parsed, up to the results loop.
ScPage(payload) ==
    /\ fetches' = CountFetch(fetches)
    /\ last' = <<[p |-> page, echoed |-> payload.page,
                  results |-> payload.results]>>
    /\ IF RanOffEnd(payload, page)
       THEN Ends("TooManyResults") /\ UNCHANGED <<page, todo>>
       ELSE /\ page' = NextPage(page)
            /\ IF payload.results = <<>>
               THEN Ends("return") /\ UNCHANGED todo
               ELSE /\ todo' = payload.results
                    /\ gen' = "links"
                    /\ UNCHANGED <<error, run>>
    /\ UNCHANGED <<service, hits, server_side_timeouts, match, r, out,
                   yielded, recent, oks, N, getvars>>

\* A page fetch against a backend that may answer anything.
ScFetch ==
    /\ MayFetch("searchcode")
    /\ \E payload \in Payloads(page) : ScPage(payload)

\* A page fetch on which _get (or the second raise_for_status) raises
\* HTTPError.
ScFetchError ==
    /\ MayFetch("searchcode")
    /\ fetches' = CountFetch(fetches)
    /\ Ends("HTTPError")
    /\ UNCHANGED <<service, hits, page, server_side_timeouts, todo,
                   match, r, out, yielded, recent, oks, last, N, getvars>>

\* One pass of "for result in payload['results']": the result is yielded.
ScResult ==
    /\ service = "searchcode"
    /\ run = "running"
    /\ gen = "links"
    /\ match = <<>>
    /\ Len(yielded) < YieldBound
    /\ match' = <<ScMatch(Head(todo))>>
    /\ yielded' = Append(yielded, ScMatch(Head(todo)))
    /\ todo' = Tail(todo)
    /\ gen' = IF todo' = <<>> THEN "fetch" ELSE "links"
    /\ UNCHANGED <<service, hits, page, server_side_timeouts, error, r,
                   out, run, fetches, recent, oks, last, N, getvars>>

\* ------------------------------------------------------ dump_all_matches
\* The response _get returns for a raw_url: the file's body.
Response(url) == [url |-> url, content |-> [body_of |-> url]]

\* The dict written for a match: the match with service, query and content
\* added.
Record(m, c) ==
    [service |-> service, query |-> "query", repo |-> m.repo,
     path |-> m.path, raw_url |-> m.raw_url, content |-> c]

\* The body of dump_all_matches' for loop on the match just yielded.  The
\* content fetch returns a response or raises HTTPError; the except clause
\* reports the error and falls through to 'match["content"] = r.content',
\* where r is what an earlier pass left, or is not bound at all
\* (UnboundLocalError).
DumpBody ==
    /\ run = "running"
    /\ match # <<>>
    /\ \E ok \in BOOLEAN :
          LET m == match[1]
              r1 == IF ok THEN <<Response(m.raw_url)>> ELSE r
          IN  /\ r' = r1
              /\ oks' = Append(oks, ok)
              /\ IF r1 = <<>>
                 THEN /\ run' = "aborted"
                      /\ error' = "UnboundLocalError"
                      /\ UNCHANGED out
                 ELSE /\ out' = Append(out, Record(m, r1[1].content))
                      /\ UNCHANGED <<run, error>>
    /\ match' = <<>>
    /\ UNCHANGED <<service, hits, page, server_side_timeouts, todo,
                   gen, yielded, fetches, recent, last, N, getvars>>

\* A consumer that only iterates: "for match in search_fn(query)".
Consume ==
    /\ run = "running"
    /\ match # <<>>
    /\ match' = <<>>
    /\ UNCHANGED <<service, hits, page, server_side_timeouts, todo,
                   gen, error, r, out, run, yielded, fetches, recent, oks, last,
                   N, getvars>>

\* ------------------------------------------------ consistent backends
\* The elements of a set of numbers in increasing order.
SortedSeq(S) ==
    [i \in 1..Cardinality(S) |->
        CHOOSE x \in S : Cardinality({y \in S : y < x}) = i - 1]

\* The page of a backend that holds n results and reports that total in one
\* "found n code results" heading, listing the results of the sequence
\* order.
ResultPage(n, order) ==
    Page(<<H3(FALSE, FALSE, <<n>>, FALSE)>>, 1,
         [i \in 1..Len(order) |-> Link(order[i], FALSE, TRUE)])

\* The number of results a backend of n results shows on page p.
PageLen(n, p) ==
    IF p * PageSize <= n THEN PageSize
    ELSE IF (p - 1) * PageSize < n THEN n - (p - 1) * PageSize
    ELSE 0

\* The results a backend of n results in a fixed order shows on page p.
StableResults(n, p) == [i \in 1..PageLen(n, p) |-> (p - 1) * PageSize + i]

\* A page fetch against the stable backend: page p always holds the same
\* results.
StableFetch ==
    /\ MayFetch("github")
    /\ GithubPage(ResultPage(N, StableResults(N, page)))

\* A page fetch against the reordering backend: the results are in some
\* order of the backend's choice at every fetch, so page p holds any
\* results, as many as the page has places for.
ReorderFetch ==
    /\ MayFetch("github")
    /\ \E S \in SUBSET (1..N) :
          /\ Cardinality(S) = PageLen(N, page)
          /\ GithubPage(ResultPage(N, SortedSeq(S)))

\* The payload of a backend that holds n results, all of them on page 0,
\* and echoes the page number it was asked for.
EchoPayload(n, p) ==
    [page |-> p,
     results |-> IF p = 0 THEN [i \in 1..n |-> Result(i)] ELSE <<>>]

\* A page fetch against the echoing backend.
EchoFetch ==
    /\ MayFetch("searchcode")
    /\ N > 0
    /\ ScPage(EchoPayload(N, page))

\* ------------------------------------------------------ specifications
\* The state when the generator of service svc is first resumed.
ScanInit(svc) ==
    /\ service = svc
    /\ hits = {}
    /\ page = IF svc = "github" THEN 1 ELSE 0
    /\ server_side_timeouts = 0
    /\ todo = <<>>
    /\ gen = "fetch"
    /\ error = ""
    /\ match = <<>>
    /\ r = <<>>
    /\ out = <<>>
    /\ run = "running"
    /\ yielded = <<>>
    /\ fetches = 0
    /\ recent = <<>>
    /\ oks = <<>>
    /\ last = <<>>

\* No _get call is followed step by step.
GetIdle ==
    /\ pause = 1
    /\ backoffs = 0
    /\ getst = "idle"
    /\ sleeps = <<>>
    /\ attempts = <<>>

\* The program: dump_all_matches on either service, against a backend that
\* may answer anything.
Init ==
    /\ \E svc \in {"github", "searchcode"} : ScanInit(svc)
    /\ N = 0
    /\ GetIdle

Next ==
    \/ GithubFetch
    \/ GithubFetchError
    \/ GithubLink
    \/ ScFetch
    \/ ScFetchError
    \/ ScResult
    \/ DumpBody

Spec == Init /\ [][Next]_vars

\* One call of _get, request by request.
InitGet ==
    /\ ScanInit("github")
    /\ N = 0
    /\ GetInit

NextGet ==
    \/ GetBackoff
    \/ GetRaise
    \/ GetReturn

SpecGet == InitGet /\ [][NextGet]_vars

\* A search_github scan, iterated by a consumer that does nothing else,
\* against the stable backend.  The scan runs on its own thread of control
\* and the backend answers every request: every enabled step is taken.
InitStable ==
    /\ ScanInit("github")
    /\ N \in 1..MaxN
    /\ GetIdle

NextStable ==
    \/ StableFetch
    \/ GithubLink
    \/ Consume

SpecStable == InitStable /\ [][NextStable]_vars /\ WF_vars(NextStable)

\* The same scan against the reordering backend.
InitReorder ==
    /\ ScanInit("github")
    /\ N \in 1..MaxShuffled
    /\ GetIdle

NextReorder ==
    \/ ReorderFetch
    \/ GithubLink
    \/ Consume

SpecReorder == InitReorder /\ [][NextReorder]_vars /\ WF_vars(NextReorder)

\* A search_searchcode scan, iterated by a consumer that does nothing
\* else: against a backend that may answer anything (N = 0), or against the
\* echoing backend with one full page of results.
InitSearchcode ==
    /\ ScanInit("searchcode")
    /\ N \in {0, PerPage}
    /\ GetIdle

AnyScFetch == N = 0 /\ ScFetch

AnyScFetchError == N = 0 /\ ScFetchError

NextSearchcode ==
    \/ AnyScFetch
    \/ AnyScFetchError
    \/ EchoFetch
    \/ ScResult
    \/ Consume

SpecSearchcode ==
    InitSearchcode /\ [][NextSearchcode]_vars /\ WF_vars(NextSearchcode)

\* A search_github scan, iterated by a consumer that does nothing else,
\* against a backend that may answer anything; the history keeps the count
\* markers of the page fetched last.
InitParse ==
    /\ ScanInit("github")
    /\ N = 0
    /\ GetIdle

NextParse ==
    \/ ParseFetch
    \/ GithubFetchError
    \/ GithubLink
    \/ Consume

SpecParse == InitParse /\ [][NextParse]_vars

\* ------------------------------------------------------------ claims
\* C10: _get never surfaces a connection failure or a 429 to its caller.
\* After k retriable failures (connection failures or 429 responses) it has
\* slept exactly k times, the i-th sleep lasting 2^(i-1) time units; the
\* call ends only on a response that is neither, and returns it if its
\* status is no error, whatever k is.
C10_BackoffSchedule ==
    LET retriable(o) == o.conn \/ o.status = 429
        k == Cardinality({i \in 1..Len(attempts) : retriable(attempts[i])})
    IN  /\ backoffs = k
        /\ Len(sleeps) = k
        /\ \A i \in 1..Len(sleeps) : sleeps[i] = Pow2(i - 1)
        /\ pause = Pow2(k)
        /\ getst = "loop" => k = Len(attempts)
        /\ getst \in {"returned", "raised"} =>
              /\ k = Len(attempts) - 1
              /\ ~retriable(attempts[Len(attempts)])
        /\ getst = "returned" => attempts[Len(attempts)].status = 200

\* C10 witness: a call that returned after MaxBackoffs retriable failures,
\* among them a connection failure and a 429.
C10_Witness ==
    /\ getst = "returned"
    /\ backoffs = MaxBackoffs
    /\ \E i, j \in 1..Len(attempts) :
          attempts[i].conn /\ attempts[j].status = 429

\* The raw_urls of a sequence of matches or records, in order.
RawUrlsOf(s) == [i \in 1..Len(s) |-> s[i].raw_url]

\* The number of TRUE flags at the end of a sequence of flags.
RECURSIVE TrailingTrue(_)
TrailingTrue(s) ==
    IF s = <<>> \/ ~s[Len(s)] THEN 0
    ELSE 1 + TrailingTrue(SubSeq(s, 1, Len(s) - 1))

\* C1 as stated: on either adapter no two matches yielded in a scan have the
\* same raw_url, whatever the backend returns.
C1_AllDistinct == NoDup(RawUrlsOf(yielded))

\* C1 as amended: in a search_github scan no two matches yielded have the
\* same raw_url, whatever the backend returns, and hits holds exactly the
\* raw_urls yielded.  (search_searchcode yields every result of every page
\* it accepts, repeated or not.)
C1_GithubDistinct ==
    service = "github" =>
        /\ NoDup(RawUrlsOf(yielded))
        /\ hits = Range(RawUrlsOf(yielded))

\* C1 witness: on a second or later page the backend serves a file again
\* that the scan has yielded already, here behind a line fragment.
C1_Witness ==
    /\ service = "github"
    /\ fetches >= 2
    /\ gen = "links"
    /\ todo # <<>>
    /\ Head(todo).blob /\ Head(todo).frag
    /\ RawUrl(StripFragment(Head(todo))) \in hits
    /\ Len(yielded) = MaxUrls

\* C2 as stated: a match whose content fetch fails gets no record, so the
\* number of records written is the number of content fetches that
\* succeeded.
C2_FailedFetchWritesNothing ==
    Len(out) = Cardinality({i \in 1..Len(oks) : oks[i]})

\* C3 as stated: a failed content fetch never aborts dump_all_matches, the
\* run is aborted only by a failure of the scan itself.
C3_FetchErrorNeverAborts == run = "aborted" => gen = "raised"

\* C4 as stated: every record written carries the repo, path and raw_url of
\* a match that was yielded, and its content is the body served for its own
\* raw_url.
C4_RecordOfItsMatch ==
    \A i \in 1..Len(out) :
        /\ \E j \in 1..Len(yielded) :
              /\ out[i].repo = yielded[j].repo
              /\ out[i].path = yielded[j].path
              /\ out[i].raw_url = yielded[j].raw_url
        /\ out[i].content = Response(out[i].raw_url).content

\* C8: a search_github scan fails with the too-unstable error exactly when
\* the last three page fetches in a row carried the incomplete-results
\* flag, and then no match is pending or yielded any more; whenever a page
\* is about to be requested the counter is between 0 and 2 and equals the
\* number of flagged fetches since the last fetch without the flag.
C8_TimeoutCounter ==
    service = "github" =>
        /\ error = "TooUnstable" <=> recent = <<TRUE, TRUE, TRUE>>
        /\ error = "TooUnstable" =>
              gen = "raised" /\ run = "aborted" /\ match = <<>>
        /\ run = "running" =>
              /\ server_side_timeouts \in 0..2
              /\ server_side_timeouts = TrailingTrue(recent)

\* C8 witness: the scan failed as too unstable on its fourth page fetch,
\* after a first page that did not carry the flag.
C8_Witness ==
    /\ service = "github"
    /\ error = "TooUnstable"
    /\ fetches = 4
    /\ server_side_timeouts = 3

\* C9 as stated: after a page-1 fetch that carried the no-results phrase
\* the scan has ended.
C9_NoResultsEndsScan ==
    (service = "github" /\ last # <<>> /\ last[1].p = 1 /\ last[1].none)
        => gen \in {"returned", "raised"}

\* C9 as amended: after a page-1 fetch that carried the no-results phrase
\* and not the incomplete-results flag, the scan has ended at that fetch
\* with no match and no link of that page pending: it returned, or failed
\* on a count heading or a contradictory partial-count heading of the same
\* page.  When that fetch was the first of the scan, nothing was yielded
\* and nothing written.
C9_NoResultsPage ==
    (service = "github" /\ last # <<>> /\ last[1].p = 1 /\ last[1].none
     /\ last[1].timed_out # "True") =>
        /\ gen \in {"returned", "raised"}
        /\ match = <<>> /\ todo = <<>>
        /\ gen = "raised" => error \in {"AssertionError", "TooManyHits"}
        /\ fetches = 1 => yielded = <<>> /\ out = <<>>

\* C9 witness: the first page fetch of a scan answered with the no-results
\* phrase and the scan returned with nothing yielded.
C9_Witness ==
    /\ service = "github"
    /\ fetches = 1
    /\ last # <<>> /\ last[1].p = 1 /\ last[1].none
    /\ last[1].timed_out = "None"
    /\ gen = "returned"
    /\ yielded = <<>>

\* The raw_urls of the n results of a consistent backend.
AllResults(n) == {RawUrl(Link(i, FALSE, TRUE)) : i \in 1..n}

\* C5: against the stable backend with total N a search_github scan never
\* fails and never yields a raw_url twice, and it ends normally having
\* yielded exactly the N matches of the result set.
C5_StableScan ==
    /\ [](gen # "raised" /\ NoDup(RawUrlsOf(yielded)))
    /\ <>[](/\ gen = "returned"
            /\ Len(yielded) = N
            /\ Range(RawUrlsOf(yielded)) = AllResults(N))

\* C5 witness: a scan of the largest stable result set has returned with
\* all its matches yielded.
C5_Witness ==
    /\ N = MaxN
    /\ gen = "returned"
    /\ Len(yielded) = MaxN

\* C6 as stated: against the stable backend with total N a scan issues at
\* most ceil(N/10) page fetches.
C6_AtMostCeilFetches == N > 0 => fetches <= TotalPages(N)

\* C7 as stated: against the reordering backend the scan eventually has
\* yielded all N matches and has returned.
C7_EventuallyAll == <>(gen = "returned" /\ Len(yielded) = N)

\* C7 as amended: against the reordering backend the scan never fails,
\* never yields a raw_url twice, and returns only when all N distinct
\* matches have been yielded; once they have been, the next page fetch
\* makes it return.  It need not get that far: while the backend keeps a
\* result off every page that is requested, the scan rescans.
C7_ReorderScan ==
    /\ [](gen # "raised" /\ NoDup(RawUrlsOf(yielded)))
    /\ [](gen = "returned" =>
            Len(yielded) = N /\ Range(RawUrlsOf(yielded)) = AllResults(N))
    /\ [][(Cardinality(hits) = N /\ gen = "fetch" /\ match = <<>>)
            => gen' = "returned"]_vars

\* C7 witness: a scan of the largest reordered result set returned after
\* more page fetches than one pass and the final fetch take, so a result
\* was missing after the first pass.
C7_Witness ==
    /\ N = MaxShuffled
    /\ gen = "returned"
    /\ fetches > TotalPages(N) + 1
    /\ Len(yielded) = N

\* C11: within one _get call every request before the last one failed
\* with a connection error or a 429; a response with any other error
\* status is the last request of the call and the call has failed on it,
\* however many retriable failures came before; the call has returned only
\* on a response whose status is no error.
C11_OtherErrorsImmediate ==
    LET n == Len(attempts)
        errstatus(o) == ~o.conn /\ o.status >= 400 /\ o.status # 429
    IN  /\ \A i \in 1..n : errstatus(attempts[i]) => i = n /\ getst = "raised"
        /\ getst = "raised" => n > 0 /\ errstatus(attempts[n])
        /\ getst = "returned" =>
              n > 0 /\ ~attempts[n].conn /\ attempts[n].status < 400

\* C11 witness: a call failed on a 500 after a connection failure and a
\* 429.
C11_Witness ==
    /\ getst = "raised"
    /\ Len(attempts) = 3
    /\ attempts[1].conn
    /\ attempts[2].status = 429
    /\ attempts[3].status = 500

\* C12: in a search_searchcode scan the k-th request asks for page k-1
\* (pages 0, 1, 2, ... in increasing order, each once, the cursor never
\* going back); every result of an accepted non-empty page is yielded, in
\* order, before the next request; the scan returns exactly on the first
\* accepted page whose results array is empty.  Against the echoing backend
\* with PerPage results on page 0 the scan never fails and returns at its
\* second fetch having yielded the PerPage matches.
C12_ScInv ==
    /\ gen \in {"fetch", "links"} => page = fetches
    /\ (last # <<>> /\ error # "HTTPError") =>
          LET res == last[1].results
              k == Len(res) - Len(todo)
          IN  /\ last[1].p = fetches - 1
              /\ gen = "returned" <=>
                    (last[1].echoed = last[1].p /\ res = <<>>)
              /\ (last[1].echoed = last[1].p /\ res # <<>>) =>
                    /\ gen \in {"fetch", "links"}
                    /\ gen = "fetch" <=> todo = <<>>
                    /\ k >= 0 /\ k <= Len(yielded)
                    /\ todo = SubSeq(res, k + 1, Len(res))
                    /\ \A i \in 1..k :
                          yielded[Len(yielded) - k + i] = ScMatch(res[i])
    /\ gen = "returned" => last # <<>> /\ error = ""
    /\ N > 0 =>
          /\ gen # "raised"
          /\ fetches <= 2
          /\ gen = "returned" =>
                /\ fetches = 2
                /\ yielded = [i \in 1..N |-> ScMatch(Result(i))]

C12_SearchcodeScan ==
    /\ []C12_ScInv
    /\ (N > 0) => <>(gen = "returned")

\* C12 witness: against the echoing backend the scan has yielded PerPage
\* matches and returned at its second fetch.
C12_Witness ==
    /\ service = "searchcode"
    /\ N = PerPage
    /\ gen = "returned"
    /\ fetches = 2
    /\ Len(yielded) = PerPage

C14_IncompletePageFrame ==
    /\ [][(/\ service = "github"
           /\ fetches' # fetches
           /\ error' # "HTTPError"
           /\ last'[1].timed_out = "True")
          => /\ page' = page
             /\ last'[1].p = page
             /\ hits' = hits
             /\ yielded' = yielded
             /\ match' = <<>> /\ todo' = <<>>
             /\ server_side_timeouts' = server_side_timeouts + 1
             /\ gen' \in {"fetch", "raised"}
             /\ gen' = "raised" <=> server_side_timeouts' = TimeoutLimit
             /\ gen' = "raised" => error' = "TooUnstable"]_vars
    /\ [][(/\ service = "github"
           /\ fetches' # fetches
           /\ error' # "HTTPError"
           /\ last # <<>>
           /\ last[1].timed_out = "True")
          => last'[1].p = last[1].p]_vars

\* C14 witness: two fetches of page 2 in a row were taken for incomplete
\* after a match was yielded from page 1, and page 2 is due again.
C14_Witness ==
    /\ service = "github"
    /\ last # <<>> /\ last[1].timed_out = "True"
    /\ last[1].p = 2 /\ page = 2
    /\ server_side_timeouts = 2
    /\ gen = "fetch"
    /\ Len(yielded) >= 1

\* The signals of the page fetched last that come before its i-th one let
\* the heading scan run on: counts above the number of hits and not above
\* the ceiling, and no no-results phrase.
ScanReaches(i) ==
    \A j \in 1..(i - 1) :
        /\ last[1].signals[j] > Cardinality(hits)
        /\ last[1].signals[j] <= ResultCeiling

\* C15 as stated: whenever the page fetched last, a page not taken for
\* incomplete, shows a count above 1000, the scan has failed with the
\* too-many-hits error.
C15_BigCountFails ==
    (service = "github" /\ last # <<>> /\ error # "HTTPError"
     /\ last[1].timed_out = "None"
     /\ \E i \in 1..Len(last[1].counts) : last[1].counts[i] > ResultCeiling)
        => error = "TooManyHits"

\* C15 as amended: the scan has failed with the too-many-hits error exactly
\* when the heading scan of the page fetched last, a page not taken for
\* incomplete, reached a count above 1000 before any signal that ends it;
\* a page whose only signal is a count of exactly 1000 is accepted.  The
\* fetch that fails so registers no raw_url, yields nothing and leaves no
\* link to look at.
C15_CeilingInv ==
    (service = "github" /\ last # <<>> /\ error # "HTTPError"
     /\ last[1].timed_out = "None") =>
        /\ error = "TooManyHits" <=>
              \E i \in 1..Len(last[1].signals) :
                  last[1].signals[i] > ResultCeiling /\ ScanReaches(i)
        /\ last[1].signals = <<ResultCeiling>> =>
              \/ gen \in {"fetch", "links"}
              \/ error = "ValueError"

C15_ScopeExceeded ==
    /\ []C15_CeilingInv
    /\ [][error' = "TooManyHits" =>
            /\ error = ""
            /\ gen' = "raised"
            /\ hits' = hits /\ yielded' = yielded
            /\ match' = <<>> /\ todo' = <<>>]_vars

\* C15 witness: after a page that yielded a match, a page with the one
\* count 1001 made the scan fail with the too-many-hits error.
C15_Witness ==
    /\ service = "github"
    /\ error = "TooManyHits"
    /\ last[1].signals = <<ResultCeiling + 1>>
    /\ fetches >= 2
    /\ Len(yielded) >= 1

\* C16 as stated: after a page that was not taken for incomplete, that
\* holds no no-results phrase and whose number of count markers is zero or
\* more than one, the scan has failed, with no match and no link of that
\* page pending.
C16_OneMarkerOrFatal ==
    (service = "github" /\ last # <<>> /\ error # "HTTPError"
     /\ last[1].timed_out # "True" /\ ~last[1].none
     /\ Len(last[1].counts) # 1) =>
        /\ gen = "raised"
        /\ match = <<>> /\ todo = <<>>

\* C17: in a search_searchcode scan a payload whose echoed page differs from
\* the page requested makes the scan fail with the too-many-results error,
\* with nothing of that payload yielded or left to yield and the cursor
\* where it was, whether the payload has results or not; the scan fails so
\* only on such a payload, and it has returned only on a payload with the
\* requested page echoed and no results.
C17_EchoInv ==
    (service = "searchcode" /\ last # <<>> /\ error # "HTTPError") =>
        /\ last[1].echoed # last[1].p <=> error = "TooManyResults"
        /\ error = "TooManyResults" =>
              /\ gen = "raised" /\ run = "aborted"
              /\ match = <<>> /\ todo = <<>>
              /\ page = last[1].p
        /\ gen = "returned" =>
              last[1].echoed = last[1].p /\ last[1].results = <<>>

C17_EchoMismatchFatal ==
    /\ []C17_EchoInv
    /\ [][error' = "TooManyResults" =>
            error = "" /\ yielded' = yielded /\ page' = page]_vars

\* C17 witness: after a page that yielded a match, a payload with another
\* page echoed and results in it made the scan fail.
C17_Witness ==
    /\ service = "searchcode"
    /\ error = "TooManyResults"
    /\ last[1].results # <<>>
    /\ fetches >= 2
    /\ Len(yielded) >= 1

\* C18 as stated: after a page that was not taken for incomplete and that
\* holds both a count marker and the no-results phrase, the scan has
\* failed.
C18_CountAndPhraseFatal ==
    (service = "github" /\ last # <<>> /\ error # "HTTPError"
     /\ last[1].timed_out = "None"
     /\ last[1].none /\ last[1].counts # <<>>) =>
        gen = "raised"

\* C19: at most one match is yielded and not yet consumed, and it is the
\* one yielded last; every match yielded before it has had its content
\* fetch, and its record written unless that aborted the run.  A page fetch
\* is issued only when no match is pending: every match yielded so far has
\* had its content fetch and no link of the page before is left to look at.
C19_OneAtATime ==
    /\ Len(match) <= 1
    /\ match # <<>> => match[1] = yielded[Len(yielded)]
    /\ Len(oks) + Len(match) = Len(yielded)
    /\ Len(out) = Len(oks) - (IF error = "UnboundLocalError" THEN 1 ELSE 0)

C19_Sequential ==
    /\ []C19_OneAtATime
    /\ [][fetches' # fetches =>
            /\ match = <<>> /\ todo = <<>>
            /\ Len(oks) = Len(yielded)
            /\ Len(out) = Len(yielded)]_vars

\* C19 witness: the second page fetch of a search_github scan has just been
\* made, and the two matches yielded from the first page have their records
\* written.
C19_Witness ==
    /\ service = "github"
    /\ fetches = 2
    /\ gen = "links"
    /\ Len(todo) = 2
    /\ Len(yielded) = 2
    /\ Len(out) = 2

\* C20 as stated: after a page that was parsed and showed the one total T,
\* the page number the scan is at is between 1 and ceil(T/10).
C20_CursorWithinPages ==
    (service = "github" /\ gen \in {"fetch", "links"} /\ last # <<>>
     /\ last[1].timed_out = "None" /\ Len(last[1].counts) = 1) =>
        /\ page >= 1
        /\ page <= TotalPages(last[1].counts[1])

=============================================================================
